---- MODULE Spec2Model ----
(***************************************************************************)
(* Escrowed-transfer ledger of the cryptocurrency service:                 *)
(* src/src/transactions.rs (the four transaction handlers),                *)
(* src/src/schema.rs (the stores and the balance primitives) and           *)
(* src/src/pending_transfer.rs (the PendingTransfer record).               *)
(* UnitSpec is the direct call of can_confirm_withdrawal in                 *)
(* src/tests/tx.rs.                                                        *)
(*                                                                         *)
(* Integers: the currency type is u64 and Wallet.balance is i64            *)
(* (transactions.rs:226, 240).  Both are modelled at WIDTH bits instead of *)
(* 64, with two's-complement casts and wrapping arithmetic (the default    *)
(* of an optimised build; with overflow checks the same transaction        *)
(* panics instead and the framework discards it).                          *)
(***************************************************************************)
EXTENDS Integers, Sequences, FiniteSets, TLC

\* ------------------------------------------------------------------ bounds
\* Bit width of the modelled currency integers (64 in the program).
WIDTH == 3
\* Number of identities (public keys) that author transactions.
NumKeys == 3
\* Number of transaction identifiers that can be committed in one run.
MaxTx == 5

\* lib.rs (not among the sources) sets INITIAL_BALANCE; schema.rs:159 uses it.
INITIAL_BALANCE == 1

MOD == 2 ^ WIDTH
HALF == 2 ^ (WIDTH - 1)

PublicKeys == 1 .. NumKeys
Hashes == 1 .. MaxTx
Names == {"alice"}
\* u64: the range of `amount`, `seed` and Wallet.frozen_amount.
U64 == 0 .. (MOD - 1)
\* i64: the range of Wallet.balance.
I64 == (0 - HALF) .. (HALF - 1)

\* `x as u64` / the result of a wrapping u64 operation.
as_u64(x) == x % MOD
\* `x as i64` / the result of a wrapping i64 operation.
as_i64(x) == IF (x % MOD) >= HALF THEN (x % MOD) - MOD ELSE x % MOD

\* ------------------------------------------------------------------ errors
ERROR_SENDER_SAME_AS_RECEIVER == 0
ERROR_THIRD_PARTY_SAME_AS_SENDER_OR_RECEIVER == 1
ERROR_UNEXPECTED_THIRD_PARTY == 2

\* enum Error: discriminant and #[fail(display)] text of each variant.
WalletAlreadyExists == [code |-> 0, display |-> "Wallet already exists"]
SenderNotFound == [code |-> 1, display |-> "Sender doesn't exist"]
ReceiverNotFound == [code |-> 2, display |-> "Receiver doesn't exist"]
InsufficientCurrencyAmount == [code |-> 3, display |-> "Insufficient currency amount"]
PendingTransferNotFound == [code |-> 4, display |-> "Pending transfer doesn't exist"]
PendingTransferAlreadyFulfilled ==
    [code |-> 5, display |-> "Pending transfer has already been fulfilled"]
ApproverNotFound == [code |-> 6, display |-> "Approver doesn't exist"]

\* What the caller receives.  Ok(()) ...
Ok == [status |-> "Ok", code |-> 0, description |-> ""]
\* ... ExecutionError::new(code): a bare code, no description ...
ExecutionError_new(code) == [status |-> "Err", code |-> code, description |-> ""]
\* ... or impl From<Error> for ExecutionError: `value as u8` and its display text.
From_Error(value) ==
    [status |-> "Err", code |-> value.code, description |-> value.display]

\* ------------------------------------------------------------------ state
VARIABLES
    wallets,            \* "cryptocurrency.wallets": PublicKey -> Wallet
    wallet_history,     \* "cryptocurrency.wallet_history": per-key list of Hash
    pending_transfers,  \* "cryptocurrency.pending_transfers": Hash -> PendingTransfer
    committed,          \* the committed transactions, by their hash
    args,               \* tests/tx.rs: the arguments of a direct call, or << >>
    returned            \* tests/tx.rs: << the value the call returned >>, or << >>

vars == <<wallets, wallet_history, pending_transfers, committed, args, returned>>

\* A map store's put(key, value): full replace.
Put(m, k, v) == [x \in (DOMAIN m) \cup {k} |-> IF x = k THEN v ELSE m[x]]

\* The read/write view a handler works on.
Fork(w, h, p) == [wallets |-> w, wallet_history |-> h, pending_transfers |-> p]

\* ------------------------------------------------------------------ records
\* Wallet (wallet.rs is not among the sources; fields as used by schema.rs:159
\* and transactions.rs).  history_hash is the log's merkle root, modelled by the
\* log content it commits to.
Wallet_new(key, name, balance, history_hash, frozen_amount) ==
    [pub_key |-> key, name |-> name, balance |-> balance,
     history_hash |-> history_hash, frozen_amount |-> frozen_amount]

set_balance(wallet, balance, history_hash) ==
    [wallet EXCEPT !.balance = balance, !.history_hash = history_hash]

set_frozen_amount(wallet, frozen_amount, history_hash) ==
    [wallet EXCEPT !.frozen_amount = frozen_amount, !.history_hash = history_hash]

\* PendingTransfer::new: the struct has exactly these five fields.
PendingTransfer_new(tx_hash, from, to, amount, fulfilled) ==
    [tx_hash |-> tx_hash, from |-> from, to |-> to, amount |-> amount,
     fulfilled |-> fulfilled]

\* Mutant of set_fulfilled: the struct update also swaps the two parties.
set_fulfilled_swapped(transfer) ==
    [transfer EXCEPT !.fulfilled = TRUE, !.from = transfer.to, !.to = transfer.from]

set_fulfilled(transfer) == [transfer EXCEPT !.fulfilled = TRUE]

\* ------------------------------------------------------------------ schema
\* history.push(transaction); history.merkle_root()
history_push(f, key, transaction) ==
    [f EXCEPT !.wallet_history[key] = Append(@, transaction)]

\* Mutant of increase_wallet_balance: the record is written without a log entry.
increase_wallet_balance_unlogged(f, wallet, amount, transaction) ==
    LET history_hash == f.wallet_history[wallet.pub_key]
        balance == wallet.balance
        w == set_balance(wallet, as_i64(balance + as_i64(amount)), history_hash)
    IN  [f EXCEPT !.wallets = Put(@, w.pub_key, w)]

increase_wallet_balance(f, wallet, amount, transaction) ==
    LET f1 == history_push(f, wallet.pub_key, transaction)
        history_hash == f1.wallet_history[wallet.pub_key]
        balance == wallet.balance
        w == set_balance(wallet, as_i64(balance + as_i64(amount)), history_hash)
    IN  [f1 EXCEPT !.wallets = Put(@, w.pub_key, w)]

decrease_wallet_balance(f, wallet, amount, transaction) ==
    LET f1 == history_push(f, wallet.pub_key, transaction)
        history_hash == f1.wallet_history[wallet.pub_key]
        balance == wallet.balance
        frozen == wallet.frozen_amount
        w == set_frozen_amount(
                 set_balance(wallet, as_i64(balance - as_i64(amount)), history_hash),
                 as_u64(frozen + amount), history_hash)
    IN  [f1 EXCEPT !.wallets = Put(@, w.pub_key, w)]

decrease_wallet_frozen_balance(f, wallet, amount, transaction) ==
    LET f1 == history_push(f, wallet.pub_key, transaction)
        history_hash == f1.wallet_history[wallet.pub_key]
        frozen == wallet.frozen_amount
        w == set_frozen_amount(wallet, as_u64(frozen - amount), history_hash)
    IN  [f1 EXCEPT !.wallets = Put(@, w.pub_key, w)]

fulfill_pending_transfer(f, transfer) ==
    LET fulfilled_transfer == set_fulfilled(transfer)
    IN  [f EXCEPT !.pending_transfers =
                      Put(@, fulfilled_transfer.tx_hash, fulfilled_transfer)]

\* schema.rs:149 takes (tx_hash, from, to, amount): no approver is stored.
create_pending_transfer(f, tx_hash, from, to, amount) ==
    [f EXCEPT !.pending_transfers =
                  Put(@, tx_hash, PendingTransfer_new(tx_hash, from, to, amount, FALSE))]

create_wallet(f, key, name, transaction) ==
    LET f1 == history_push(f, key, transaction)
        history_hash == f1.wallet_history[key]
        w == Wallet_new(key, name, INITIAL_BALANCE, history_hash, 0)
    IN  [f1 EXCEPT !.wallets = Put(@, key, w)]

\* ------------------------------------------------------------------ handlers
\* A handler's outcome: the view as it leaves it, and the result it returns.
Outcome(f, r) == [fork |-> f, result |-> r]

\* transactions.rs:226
insufficient_for_transfer(sender, amount) ==
    as_i64(sender.balance + as_i64(sender.frozen_amount)) < as_i64(amount)

\* Mutant of Transfer_execute: the funds are reserved before they are checked.
Transfer_execute_reserve_first(f, from, hash, to, approver, amount) ==
    IF from = approver \/ to = approver
    THEN Outcome(f, ExecutionError_new(ERROR_THIRD_PARTY_SAME_AS_SENDER_OR_RECEIVER))
    ELSE IF from = to
    THEN Outcome(f, ExecutionError_new(ERROR_SENDER_SAME_AS_RECEIVER))
    ELSE IF approver \notin DOMAIN f.wallets
    THEN Outcome(f, From_Error(ApproverNotFound))
    ELSE IF from \notin DOMAIN f.wallets
    THEN Outcome(f, From_Error(SenderNotFound))
    ELSE IF to \notin DOMAIN f.wallets
    THEN Outcome(f, From_Error(ReceiverNotFound))
    ELSE LET sender == f.wallets[from]
             f1 == decrease_wallet_balance(f, sender, amount, hash)
         IN
         IF insufficient_for_transfer(sender, amount)
         THEN Outcome(f1, From_Error(InsufficientCurrencyAmount))
         ELSE Outcome(create_pending_transfer(f1, hash, from, to, amount), Ok)

\* Mutant of Transfer_execute: the accounts are looked up before the parties
\* are compared.
Transfer_execute_lookup_first(f, from, hash, to, approver, amount) ==
    IF approver \notin DOMAIN f.wallets
    THEN Outcome(f, From_Error(ApproverNotFound))
    ELSE IF from \notin DOMAIN f.wallets
    THEN Outcome(f, From_Error(SenderNotFound))
    ELSE IF to \notin DOMAIN f.wallets
    THEN Outcome(f, From_Error(ReceiverNotFound))
    ELSE IF from = approver \/ to = approver
    THEN Outcome(f, ExecutionError_new(ERROR_THIRD_PARTY_SAME_AS_SENDER_OR_RECEIVER))
    ELSE IF from = to
    THEN Outcome(f, ExecutionError_new(ERROR_SENDER_SAME_AS_RECEIVER))
    ELSE LET sender == f.wallets[from] IN
         IF insufficient_for_transfer(sender, amount)
         THEN Outcome(f, From_Error(InsufficientCurrencyAmount))
         ELSE LET f1 == decrease_wallet_balance(f, sender, amount, hash)
                  f2 == create_pending_transfer(f1, hash, from, to, amount)
              IN  Outcome(f2, Ok)

\* Mutant of Transfer_execute: the sender is not compared with the receiver.
Transfer_execute_to_self(f, from, hash, to, approver, amount) ==
    IF from = approver \/ to = approver
    THEN Outcome(f, ExecutionError_new(ERROR_THIRD_PARTY_SAME_AS_SENDER_OR_RECEIVER))
    ELSE IF approver \notin DOMAIN f.wallets
    THEN Outcome(f, From_Error(ApproverNotFound))
    ELSE IF from \notin DOMAIN f.wallets
    THEN Outcome(f, From_Error(SenderNotFound))
    ELSE IF to \notin DOMAIN f.wallets
    THEN Outcome(f, From_Error(ReceiverNotFound))
    ELSE LET sender == f.wallets[from] IN
         IF insufficient_for_transfer(sender, amount)
         THEN Outcome(f, From_Error(InsufficientCurrencyAmount))
         ELSE LET f1 == decrease_wallet_balance(f, sender, amount, hash)
                  f2 == create_pending_transfer(f1, hash, from, to, amount)
              IN  Outcome(f2, Ok)

Transfer_execute(f, from, hash, to, approver, amount) ==
    IF from = approver \/ to = approver
    THEN Outcome(f, ExecutionError_new(ERROR_THIRD_PARTY_SAME_AS_SENDER_OR_RECEIVER))
    ELSE IF from = to
    THEN Outcome(f, ExecutionError_new(ERROR_SENDER_SAME_AS_RECEIVER))
    ELSE IF approver \notin DOMAIN f.wallets
    THEN Outcome(f, From_Error(ApproverNotFound))
    ELSE IF from \notin DOMAIN f.wallets
    THEN Outcome(f, From_Error(SenderNotFound))
    ELSE IF to \notin DOMAIN f.wallets
    THEN Outcome(f, From_Error(ReceiverNotFound))
    ELSE LET sender == f.wallets[from] IN
         IF insufficient_for_transfer(sender, amount)
         THEN Outcome(f, From_Error(InsufficientCurrencyAmount))
         ELSE LET f1 == decrease_wallet_balance(f, sender, amount, hash)
                  f2 == create_pending_transfer(f1, hash, from, to, amount)
              IN  Outcome(f2, Ok)

can_confirm_withdrawal(balance, frozen, amount) ==
    frozen >= amount /\ as_i64(as_i64(frozen) + balance) >= as_i64(amount)

\* The part of ConfirmTransfer::execute after the checks on the pending transfer
\* itself (transactions.rs:260-276).
ConfirmTransfer_release(f, hash, pending_transfer) ==
    LET from == pending_transfer.from
        to == pending_transfer.to
    IN
    IF from \notin DOMAIN f.wallets
    THEN Outcome(f, From_Error(SenderNotFound))
    ELSE IF to \notin DOMAIN f.wallets
    THEN Outcome(f, From_Error(ReceiverNotFound))
    ELSE LET sender == f.wallets[from]
             receiver == f.wallets[to]
             amount == pending_transfer.amount
         IN
         IF ~can_confirm_withdrawal(sender.balance, sender.frozen_amount, amount)
         THEN Outcome(f, From_Error(InsufficientCurrencyAmount))
         ELSE LET f1 == decrease_wallet_frozen_balance(f, sender, amount, hash)
                  f2 == increase_wallet_balance(f1, receiver, amount, hash)
                  f3 == fulfill_pending_transfer(f2, pending_transfer)
              IN  Outcome(f3, Ok)

\* Mutant of ConfirmTransfer_execute: the fulfilled flag is not checked.
ConfirmTransfer_execute_refulfil(f, approver, hash, tx_hash, recorded) ==
    IF tx_hash \in DOMAIN f.pending_transfers
    THEN IF recorded # approver
         THEN Outcome(f, ExecutionError_new(ERROR_UNEXPECTED_THIRD_PARTY))
         ELSE ConfirmTransfer_release(f, hash, f.pending_transfers[tx_hash])
    ELSE Outcome(f, From_Error(PendingTransferNotFound))

\* Mutant of ConfirmTransfer_execute: the fulfilled flag is checked before the
\* approver.
ConfirmTransfer_execute_fulfilled_first(f, approver, hash, tx_hash, recorded) ==
    IF tx_hash \in DOMAIN f.pending_transfers
    THEN IF f.pending_transfers[tx_hash].fulfilled
         THEN Outcome(f, From_Error(PendingTransferAlreadyFulfilled))
         ELSE IF recorded # approver
         THEN Outcome(f, ExecutionError_new(ERROR_UNEXPECTED_THIRD_PARTY))
         ELSE ConfirmTransfer_release(f, hash, f.pending_transfers[tx_hash])
    ELSE Outcome(f, From_Error(PendingTransferNotFound))

\* `recorded` is the value read as pending_transfer.approver (transactions.rs:252).
\* PendingTransfer has no such field and create_pending_transfer stores none, so
\* the stored record does not determine it.
ConfirmTransfer_execute(f, approver, hash, tx_hash, recorded) ==
    IF tx_hash \in DOMAIN f.pending_transfers
    THEN LET pending_transfer == f.pending_transfers[tx_hash] IN
         IF recorded # approver
         THEN Outcome(f, ExecutionError_new(ERROR_UNEXPECTED_THIRD_PARTY))
         ELSE IF pending_transfer.fulfilled
         THEN Outcome(f, From_Error(PendingTransferAlreadyFulfilled))
         ELSE ConfirmTransfer_release(f, hash, pending_transfer)
    ELSE Outcome(f, From_Error(PendingTransferNotFound))

Issue_execute(f, pub_key, hash, amount) ==
    IF pub_key \in DOMAIN f.wallets
    THEN Outcome(increase_wallet_balance(f, f.wallets[pub_key], amount, hash), Ok)
    ELSE Outcome(f, From_Error(ReceiverNotFound))

\* Mutant of CreateWallet_execute: an existing wallet is created again.
CreateWallet_execute_recreate(f, pub_key, hash, name) ==
    Outcome(create_wallet(f, pub_key, name, hash), Ok)

CreateWallet_execute(f, pub_key, hash, name) ==
    IF pub_key \notin DOMAIN f.wallets
    THEN Outcome(create_wallet(f, pub_key, name, hash), Ok)
    ELSE Outcome(f, From_Error(WalletAlreadyExists))

\* ------------------------------------------------------------------ transitions
\* context.tx_hash(): unique per transaction.  A rejected transaction leaves no
\* trace in the stores, so only committed identifiers count as used.
tx_hash_of_next == Cardinality(DOMAIN committed) + 1

CurrentFork == Fork(wallets, wallet_history, pending_transfers)

\* The handler's view replaces the stores.  A transaction that returns an error
\* returns it before its first write (see the handlers), so the view it leaves
\* is the one it was given.
Apply(out) ==
    /\ wallets' = out.fork.wallets
    /\ wallet_history' = out.fork.wallet_history
    /\ pending_transfers' = out.fork.pending_transfers

\* A transaction as the blockchain keeps it: author, own hash and payload.
\* Fields a payload lacks are 0 / "".
Envelope(kind, author, hash, to, approver, amount, tx_hash, name) ==
    [kind |-> kind, author |-> author, hash |-> hash, to |-> to,
     approver |-> approver, amount |-> amount, tx_hash |-> tx_hash, name |-> name]

\* Execute one transaction: a successful one is committed, a rejected one is
\* discarded.
Execute(out, envelope) ==
    /\ envelope.hash \in Hashes
    /\ Apply(out)
    /\ committed' = IF out.result = Ok THEN Put(committed, envelope.hash, envelope)
                                       ELSE committed
    /\ UNCHANGED <<args, returned>>

CreateWalletTx ==
    \E author \in PublicKeys, name \in Names :
        LET hash == tx_hash_of_next IN
        Execute(CreateWallet_execute(CurrentFork, author, hash, name),
                Envelope("CreateWallet", author, hash, 0, 0, 0, 0, name))

IssueTx ==
    \E author \in PublicKeys, amount \in U64 :
        LET hash == tx_hash_of_next IN
        Execute(Issue_execute(CurrentFork, author, hash, amount),
                Envelope("Issue", author, hash, 0, 0, amount, 0, ""))

TransferTx ==
    \E author \in PublicKeys, to \in PublicKeys, approver \in PublicKeys, amount \in U64 :
        LET hash == tx_hash_of_next IN
        Execute(Transfer_execute(CurrentFork, author, hash, to, approver, amount),
                Envelope("Transfer", author, hash, to, approver, amount, 0, ""))

ConfirmTransferTx ==
    \E author \in PublicKeys, tx_hash \in Hashes, recorded \in PublicKeys :
        LET hash == tx_hash_of_next IN
        Execute(ConfirmTransfer_execute(CurrentFork, author, hash, tx_hash, recorded),
                Envelope("ConfirmTransfer", author, hash, 0, 0, 0, tx_hash, ""))

Init ==
    /\ wallets = << >>
    /\ wallet_history = [k \in PublicKeys |-> << >>]
    /\ pending_transfers = << >>
    /\ committed = << >>
    /\ args = << >>
    /\ returned = << >>

Next ==
    \/ CreateWalletTx
    \/ IssueTx
    \/ TransferTx
    \/ ConfirmTransferTx

Spec == Init /\ [][Next]_vars

\* ------------------------------------------------------------------ unit calls
\* tests/tx.rs calls can_confirm_withdrawal directly, outside any transaction:
\* the ledger is empty and stays so; the arguments range over the whole of their
\* types.
UnitInit ==
    /\ wallets = << >>
    /\ wallet_history = [k \in PublicKeys |-> << >>]
    /\ pending_transfers = << >>
    /\ committed = << >>
    /\ args \in I64 \X U64 \X U64
    /\ returned = << >>

can_confirm_withdrawal_call ==
    /\ returned = << >>
    /\ returned' = << can_confirm_withdrawal(args[1], args[2], args[3]) >>
    /\ UNCHANGED <<wallets, wallet_history, pending_transfers, committed, args>>

UnitNext == can_confirm_withdrawal_call

UnitSpec == UnitInit /\ [][UnitNext]_vars

\* ------------------------------------------------------------------ claims
\* The handlers are functions of the stores and of the transaction, so a claim
\* about what a transaction does is stated for every reachable state of the
\* stores and every transaction that can be submitted in it.  A rejected
\* transaction leaves the stores as they are: the state it ends in is the state
\* it was submitted in.

RECURSIVE SumOver(_, _)
\* Sum over the accounts in S of balance + frozen_amount.
SumOver(w, S) ==
    IF S = {} THEN 0
    ELSE LET k == CHOOSE x \in S : TRUE
         IN  w[k].balance + w[k].frozen_amount + SumOver(w, S \ {k})

Total(w) == SumOver(w, DOMAIN w)

Unchanged(out) == out.fork = CurrentFork

TransferOutcome(from, to, approver, amount) ==
    Transfer_execute(CurrentFork, from, tx_hash_of_next, to, approver, amount)

ConfirmOutcome(author, tx_hash, recorded) ==
    ConfirmTransfer_execute(CurrentFork, author, tx_hash_of_next, tx_hash, recorded)

IssueOutcome(author, amount) ==
    Issue_execute(CurrentFork, author, tx_hash_of_next, amount)

CreateWalletOutcome(author, name) ==
    CreateWallet_execute(CurrentFork, author, tx_hash_of_next, name)

\* This step commits a transaction of the given kind (it is then the value of
\* committed' at the hash the step used).
Committing(kind) ==
    /\ committed' # committed
    /\ committed'[tx_hash_of_next].kind = kind

\* Only CreateWallet and Transfer transactions have been committed.
OnlyCreatesAndTransfers ==
    \A h \in DOMAIN committed : committed[h].kind \in {"CreateWallet", "Transfer"}

\* C1 (as claimed): after CreateAccount and Transfer transactions only, each
\* Transfer of an amount that balance + frozen_amount covers (at most
\* INITIAL_BALANCE, which that sum stays equal to), every account has
\* balance >= 0 and frozen_amount >= 0.
C1_NonNegativeAfterCoveredTransfers ==
    (/\ OnlyCreatesAndTransfers
     /\ \A h \in DOMAIN committed : committed[h].amount <= INITIAL_BALANCE)
    => \A k \in DOMAIN wallets :
           wallets[k].balance >= 0 /\ wallets[k].frozen_amount >= 0

\* C2 (as claimed): every successful Transfer and every successful
\* ConfirmTransfer leaves the sum over all accounts of balance + frozen_amount
\* unchanged.
C2_TotalConserved ==
    [][(Committing("Transfer") \/ Committing("ConfirmTransfer"))
           => Total(wallets') = Total(wallets)]_vars

\* C3 (as claimed): a ConfirmTransfer that references a fulfilled transfer
\* fails with PendingTransferAlreadyFulfilled whoever its author is, and leaves
\* the stores unchanged.  Stated with the value read as the record's approver
\* being the approver the Transfer named.
C3_AlreadyFulfilledForAnyAuthor ==
    \A h \in DOMAIN pending_transfers :
        pending_transfers[h].fulfilled =>
            \A author \in PublicKeys :
                LET out == ConfirmOutcome(author, h, committed[h].approver) IN
                /\ out.result = From_Error(PendingTransferAlreadyFulfilled)
                /\ Unchanged(out)

\* C3 (amended): a ConfirmTransfer that references a fulfilled transfer fails
\* and leaves every account, log and pending transfer unchanged; the error is
\* UnexpectedThirdParty when the approver check, which comes first, rejects
\* its author, and PendingTransferAlreadyFulfilled otherwise.
C3_FulfilledIsTerminal ==
    \A h \in DOMAIN pending_transfers :
        pending_transfers[h].fulfilled =>
            \A author \in PublicKeys, recorded \in PublicKeys :
                LET out == ConfirmOutcome(author, h, recorded) IN
                /\ out.result =
                       IF recorded # author
                       THEN ExecutionError_new(ERROR_UNEXPECTED_THIRD_PARTY)
                       ELSE From_Error(PendingTransferAlreadyFulfilled)
                /\ Unchanged(out)

\* C3 witness: a transfer has been confirmed, and a further confirmation of it
\* by the approver its Transfer named is rejected as already fulfilled.
C3_Witness ==
    \E h \in DOMAIN pending_transfers :
        /\ pending_transfers[h].fulfilled
        /\ LET a == committed[h].approver IN
           ConfirmOutcome(a, h, a).result = From_Error(PendingTransferAlreadyFulfilled)

\* C4 (as claimed): a pending transfer becomes fulfilled only in a
\* ConfirmTransfer authored by the approver named in the Transfer that created
\* it (any other author being rejected with UnexpectedThirdParty).
C4_OnlyNamedApproverConfirms ==
    [][Committing("ConfirmTransfer") =>
           LET confirm == committed'[tx_hash_of_next] IN
           confirm.author = committed[confirm.tx_hash].approver]_vars

\* C5: a transaction of any of the four kinds that returns an error leaves
\* every account record, every history log and every pending transfer as it
\* was.
C5_ErrorsChangeNothing ==
    /\ \A from \in PublicKeys, to \in PublicKeys, approver \in PublicKeys, amount \in U64 :
           LET out == TransferOutcome(from, to, approver, amount) IN
           out.result # Ok => Unchanged(out)
    /\ \A author \in PublicKeys, h \in Hashes, recorded \in PublicKeys :
           LET out == ConfirmOutcome(author, h, recorded) IN
           out.result # Ok => Unchanged(out)
    /\ \A author \in PublicKeys, amount \in U64 :
           LET out == IssueOutcome(author, amount) IN
           out.result # Ok => Unchanged(out)
    /\ \A author \in PublicKeys, name \in Names :
           LET out == CreateWalletOutcome(author, name) IN
           out.result # Ok => Unchanged(out)

\* C5 witness: a state in which a Transfer and a ConfirmTransfer are both
\* rejected by their last check (insufficient funds), a CreateWallet is
\* rejected (the wallet exists) and an Issue is rejected (no wallet).
C5_Witness ==
    /\ \E from \in PublicKeys, to \in PublicKeys, approver \in PublicKeys, amount \in U64 :
           TransferOutcome(from, to, approver, amount).result
               = From_Error(InsufficientCurrencyAmount)
    /\ \E author \in PublicKeys, h \in Hashes :
           ConfirmOutcome(author, h, author).result
               = From_Error(InsufficientCurrencyAmount)
    /\ \E author \in PublicKeys, name \in Names :
           CreateWalletOutcome(author, name).result = From_Error(WalletAlreadyExists)
    /\ wallets # << >>

C7_TransferCheckOrder ==
    \A from \in PublicKeys, to \in PublicKeys, approver \in PublicKeys, amount \in U64 :
        LET out == TransferOutcome(from, to, approver, amount)
            r == out.result
        IN
        /\ (from = approver \/ to = approver)
               => r = ExecutionError_new(ERROR_THIRD_PARTY_SAME_AS_SENDER_OR_RECEIVER)
        /\ (from # approver /\ to # approver /\ from = to)
               => r = ExecutionError_new(ERROR_SENDER_SAME_AS_RECEIVER)
        /\ Cardinality({from, to, approver}) = 3 =>
               /\ approver \notin DOMAIN wallets => r = From_Error(ApproverNotFound)
               /\ (approver \in DOMAIN wallets /\ from \notin DOMAIN wallets)
                      => r = From_Error(SenderNotFound)
               /\ ({approver, from} \subseteq DOMAIN wallets /\ to \notin DOMAIN wallets)
                      => r = From_Error(ReceiverNotFound)
               /\ {approver, from, to} \subseteq DOMAIN wallets
                      => r \in {Ok, From_Error(InsufficientCurrencyAmount)}
        /\ r # Ok => Unchanged(out)

\* C7 witness: with some accounts created and others not, a Transfer naming
\* the receiver as approver, and one to the sender itself, are rejected for
\* that although an account they name does not exist.
C7_Witness ==
    /\ wallets # << >>
    /\ \E from \in PublicKeys, to \in PublicKeys, amount \in U64 :
           /\ from # to
           /\ to \notin DOMAIN wallets
           /\ TransferOutcome(from, to, to, amount).result
                  = ExecutionError_new(ERROR_THIRD_PARTY_SAME_AS_SENDER_OR_RECEIVER)
    /\ \E from \in PublicKeys, approver \in PublicKeys, amount \in U64 :
           /\ from # approver
           /\ approver \notin DOMAIN wallets
           /\ from \in DOMAIN wallets
           /\ insufficient_for_transfer(wallets[from], amount)
           /\ TransferOutcome(from, from, approver, amount).result
                  = ExecutionError_new(ERROR_SENDER_SAME_AS_RECEIVER)

\* C8: ConfirmTransfer reports the error of the first precondition that fails,
\* in the order: the pending transfer exists; the approver it reads from the
\* record is the author; the transfer is unfulfilled; sender and receiver
\* accounts exist; can_confirm_withdrawal.
C8_ConfirmCheckOrder ==
    \A author \in PublicKeys, h \in Hashes, recorded \in PublicKeys :
        LET r == ConfirmOutcome(author, h, recorded).result IN
        IF h \notin DOMAIN pending_transfers
        THEN r = From_Error(PendingTransferNotFound)
        ELSE LET p == pending_transfers[h] IN
             /\ recorded # author => r = ExecutionError_new(ERROR_UNEXPECTED_THIRD_PARTY)
             /\ (recorded = author /\ p.fulfilled)
                    => r = From_Error(PendingTransferAlreadyFulfilled)
             /\ (recorded = author /\ ~p.fulfilled) =>
                    /\ p.from \notin DOMAIN wallets => r = From_Error(SenderNotFound)
                    /\ (p.from \in DOMAIN wallets /\ p.to \notin DOMAIN wallets)
                           => r = From_Error(ReceiverNotFound)
                    /\ {p.from, p.to} \subseteq DOMAIN wallets
                           => r \in {Ok, From_Error(InsufficientCurrencyAmount)}

\* C8 witness: one transfer is fulfilled and another cannot be confirmed for
\* lack of funds; a confirmation of either by a third party is rejected as
\* such, and a confirmation of an unknown id as not found.
C8_Witness ==
    /\ \E h \in DOMAIN pending_transfers, a \in PublicKeys, b \in PublicKeys :
           /\ a # b
           /\ pending_transfers[h].fulfilled
           /\ ConfirmOutcome(a, h, b).result
                  = ExecutionError_new(ERROR_UNEXPECTED_THIRD_PARTY)
    /\ \E h \in Hashes, a \in PublicKeys :
           ConfirmOutcome(a, h, a).result = From_Error(PendingTransferNotFound)

\* C9 (as claimed): a successful Transfer(to, approver, amount) by A with hash
\* H decreases A.balance by amount, increases A.frozen_amount by amount, creates
\* PendingTransfer(H) = (from A, to, approver, amount, unfulfilled) and changes
\* no other account and no other pending transfer.
C9_TransferEffect ==
    [][Committing("Transfer") =>
           LET t == committed'[tx_hash_of_next]
               A == t.author
               H == t.hash
           IN
           /\ wallets'[A].balance = wallets[A].balance - t.amount
           /\ wallets'[A].frozen_amount = wallets[A].frozen_amount + t.amount
           /\ DOMAIN wallets' = DOMAIN wallets
           /\ \A k \in (DOMAIN wallets) \ {A} : wallets'[k] = wallets[k]
           /\ DOMAIN pending_transfers' = (DOMAIN pending_transfers) \cup {H}
           /\ \A g \in DOMAIN pending_transfers :
                  pending_transfers'[g] = pending_transfers[g]
           /\ pending_transfers'[H].from = A
           /\ pending_transfers'[H].to = t.to
           /\ pending_transfers'[H].amount = t.amount
           /\ ~pending_transfers'[H].fulfilled
           /\ "approver" \in DOMAIN pending_transfers'[H]
           /\ pending_transfers'[H].approver = t.approver]_vars

\* C10 (as claimed): a successful ConfirmTransfer(H) decreases the sender's
\* frozen_amount by the transfer's amount, increases the receiver's balance by
\* it, sets PendingTransfer(H).fulfilled, and leaves the sender's balance, the
\* receiver's frozen_amount, every other account and every other pending
\* transfer unchanged.
C10_ConfirmEffect ==
    [][Committing("ConfirmTransfer") =>
           LET t == pending_transfers[committed'[tx_hash_of_next].tx_hash] IN
           /\ wallets'[t.from].frozen_amount = wallets[t.from].frozen_amount - t.amount
           /\ wallets'[t.from].balance = wallets[t.from].balance
           /\ wallets'[t.to].balance = wallets[t.to].balance + t.amount
           /\ wallets'[t.to].frozen_amount = wallets[t.to].frozen_amount
           /\ DOMAIN wallets' = DOMAIN wallets
           /\ \A k \in (DOMAIN wallets) \ {t.from, t.to} : wallets'[k] = wallets[k]
           /\ pending_transfers' =
                  [pending_transfers EXCEPT ![t.tx_hash].fulfilled = TRUE]]_vars

\* C11 (as claimed): a successful Issue(amount) by A sets A.balance to exactly
\* its prior balance + amount, for every amount of the currency type, and leaves
\* A.frozen_amount, every other account and every pending transfer unchanged;
\* an Issue by an identity without an account fails with ReceiverNotFound.
C11_IssueEffect ==
    [][/\ Committing("Issue") =>
              LET t == committed'[tx_hash_of_next]
                  A == t.author
              IN
              /\ A \in DOMAIN wallets
              /\ wallets'[A].balance = wallets[A].balance + t.amount
              /\ wallets'[A].frozen_amount = wallets[A].frozen_amount
              /\ DOMAIN wallets' = DOMAIN wallets
              /\ \A k \in (DOMAIN wallets) \ {A} : wallets'[k] = wallets[k]
              /\ pending_transfers' = pending_transfers
       /\ \A author \in PublicKeys, amount \in U64 :
              IF author \in DOMAIN wallets
              THEN IssueOutcome(author, amount).result = Ok
              ELSE IssueOutcome(author, amount).result = From_Error(ReceiverNotFound)]_vars

\* Names a CreateWallet may carry: those in use and one no wallet has.
AnyName == Names \cup {"bob"}

\* C12: a CreateWallet by an author without an account creates it with
\* balance = INITIAL_BALANCE and frozen_amount = 0 and touches no other account;
\* a CreateWallet by an author with an account, under any name, fails with
\* WalletAlreadyExists and changes nothing; and no step removes an account.
C12_CreatedOnce ==
    [][/\ Committing("CreateWallet") =>
              LET t == committed'[tx_hash_of_next]
                  A == t.author
              IN
              /\ A \notin DOMAIN wallets
              /\ DOMAIN wallets' = (DOMAIN wallets) \cup {A}
              /\ wallets'[A].balance = INITIAL_BALANCE
              /\ wallets'[A].frozen_amount = 0
              /\ wallets'[A].name = t.name
              /\ \A k \in DOMAIN wallets : wallets'[k] = wallets[k]
       /\ \A author \in DOMAIN wallets, name \in AnyName :
              LET out == CreateWalletOutcome(author, name) IN
              /\ out.result = From_Error(WalletAlreadyExists)
              /\ Unchanged(out)
       /\ \A k \in DOMAIN wallets : k \in DOMAIN wallets']_vars

\* C12 witness: an account whose balance and frozen_amount are no longer those
\* of a new account, and a CreateWallet by its owner under another name is
\* rejected.
C12_Witness ==
    \E k \in DOMAIN wallets :
        /\ wallets[k].balance # INITIAL_BALANCE
        /\ wallets[k].frozen_amount # 0
        /\ wallets[k].name # "bob"
        /\ CreateWalletOutcome(k, "bob").result = From_Error(WalletAlreadyExists)

\* C13 (as claimed; under UnitSpec): can_confirm_withdrawal(balance, frozen,
\* amount) returns true if and only if frozen >= amount and
\* frozen + balance >= amount as mathematical integers, for every balance of the
\* signed type and every frozen and amount of the unsigned type.
C13_CanConfirmIsMathematical ==
    returned # << >> =>
        LET balance == args[1]
            frozen == args[2]
            amount == args[3]
        IN  returned[1] = (frozen >= amount /\ frozen + balance >= amount)

\* The results a Transfer, and a ConfirmTransfer, can return in this state.
TransferResults ==
    {TransferOutcome(from, to, approver, amount).result :
        from \in PublicKeys, to \in PublicKeys, approver \in PublicKeys, amount \in U64}

ConfirmResults ==
    {ConfirmOutcome(author, h, recorded).result :
        author \in PublicKeys, h \in Hashes, recorded \in PublicKeys}

\* C14 (as claimed): two different errors that the same kind of transaction can
\* return never reach the caller with the same numeric code.
C14_DistinctCodes ==
    \A R \in {TransferResults, ConfirmResults} :
        \A r1 \in R, r2 \in R :
            (r1.status = "Err" /\ r2.status = "Err" /\ r1 # r2) => r1.code # r2.code

\* C15 (as claimed): a Transfer whose parties are distinct and all have
\* accounts succeeds if and only if balance + frozen_amount >= amount over the
\* integers, for every amount of the unsigned type; otherwise it fails with
\* InsufficientCurrencyAmount and changes nothing.
C15_FundsCheckIsMathematical ==
    \A from \in DOMAIN wallets, to \in DOMAIN wallets, approver \in DOMAIN wallets,
       amount \in U64 :
        Cardinality({from, to, approver}) = 3 =>
            LET out == TransferOutcome(from, to, approver, amount) IN
            IF wallets[from].balance + wallets[from].frozen_amount >= amount
            THEN out.result = Ok
            ELSE /\ out.result = From_Error(InsufficientCurrencyAmount)
                 /\ Unchanged(out)

\* C16: in every step and for every identity, the account record is written
\* (created or changed) exactly when one entry, the executing transaction's
\* hash, is appended to that identity's history log, and otherwise the log is
\* unchanged; the accounts written are the sender for Transfer, the sender and
\* the receiver for ConfirmTransfer, the author for Issue and CreateWallet, and
\* none for a rejected transaction.
C16_RecordAndLogTogether ==
    [][LET H == tx_hash_of_next
           written == {k \in DOMAIN wallets' :
                           k \notin DOMAIN wallets \/ wallets'[k] # wallets[k]}
           t == committed'[H]
       IN
       /\ \A k \in PublicKeys :
              wallet_history'[k] = IF k \in written
                                   THEN Append(wallet_history[k], H)
                                   ELSE wallet_history[k]
       /\ \A k \in DOMAIN wallets' : wallets'[k].history_hash = wallet_history'[k]
       /\ committed' = committed => written = {}
       /\ Committing("Transfer") => written = {t.author}
       /\ Committing("ConfirmTransfer") =>
              written = {pending_transfers[t.tx_hash].from,
                         pending_transfers[t.tx_hash].to}
       /\ Committing("Issue") => written = {t.author}
       /\ Committing("CreateWallet") => written = {t.author}]_vars

\* C16 witness: a ConfirmTransfer is committed and its hash is the last entry of
\* the logs of both the sender and the receiver, which are two accounts.
C16_Witness ==
    \E c \in DOMAIN committed :
        /\ committed[c].kind = "ConfirmTransfer"
        /\ LET p == pending_transfers[committed[c].tx_hash] IN
           /\ p.from # p.to
           /\ wallet_history[p.from][Len(wallet_history[p.from])] = c
           /\ wallet_history[p.to][Len(wallet_history[p.to])] = c

\* C17 (as claimed): every stored PendingTransfer has amount > 0.
C17_PendingAmountPositive ==
    \A h \in DOMAIN pending_transfers : pending_transfers[h].amount > 0

RECURSIVE SumAmounts(_, _)
\* Sum over the pending transfers in S of their amount.
SumAmounts(p, S) ==
    IF S = {} THEN 0
    ELSE LET h == CHOOSE x \in S : TRUE
         IN  p[h].amount + SumAmounts(p, S \ {h})

\* The unfulfilled pending transfers whose sender is k.
Reserved(k) ==
    {h \in DOMAIN pending_transfers :
        pending_transfers[h].from = k /\ ~pending_transfers[h].fulfilled}

\* C18 (as claimed): each account's frozen_amount is the sum of the amounts of
\* the unfulfilled pending transfers it is the sender of.
C18_FrozenMatchesPending ==
    \A k \in DOMAIN wallets :
        wallets[k].frozen_amount = SumAmounts(pending_transfers, Reserved(k))

\* C19 (as claimed): every account has balance + frozen_amount >= 0.
C19_SumNonNegative ==
    \A k \in DOMAIN wallets : wallets[k].balance + wallets[k].frozen_amount >= 0

\* C20: every stored PendingTransfer has a sender, a receiver and (in the
\* Transfer that created it, the record itself keeping none) an approver that
\* are pairwise distinct and all have accounts; hence no ConfirmTransfer,
\* whoever its author, fails with SenderNotFound or ReceiverNotFound, and the
\* two accounts a ConfirmTransfer writes are different ones.
C20_PendingPartiesExist ==
    \A h \in DOMAIN pending_transfers :
        LET p == pending_transfers[h]
            approver == committed[h].approver
        IN
        /\ committed[h].kind = "Transfer"
        /\ Cardinality({p.from, p.to, approver}) = 3
        /\ {p.from, p.to, approver} \subseteq DOMAIN wallets
        /\ \A author \in PublicKeys, recorded \in PublicKeys :
               ConfirmOutcome(author, h, recorded).result \notin
                   {From_Error(SenderNotFound), From_Error(ReceiverNotFound)}

\* C20 witness: a pending transfer is stored, unfulfilled, and its confirmation
\* by the approver its Transfer named gets past the account lookups and succeeds.
C20_Witness ==
    \E h \in DOMAIN pending_transfers :
        /\ ~pending_transfers[h].fulfilled
        /\ LET a == committed[h].approver IN ConfirmOutcome(a, h, a).result = Ok

====
